---- MODULE Spec2Model ----
\* The Express backend of design-agent (src/README.md, lines 232-781): the
\* document store (Firestore, or the demo-mode mock), the auth middleware, the
\* generation adapter and the route handlers.  Every handler is split at its
\* awaits on the store, the image pipeline and the provider, so that requests
\* in flight interleave exactly where the event loop lets them.
EXTENDS Integers, Sequences, FiniteSets, Bags, TLC

\* ---------------------------------------------------------------- bounds
MaxRequests == 4        \* requests accepted that wrote or had to wait (one
                        \* answered at once from what it read leaves no trace)
MaxCount == 2           \* largest explicit body.count
DefaultCount == 3       \* const { count = 3, ... } = req.body

Slots == {1, 2}                \* the requests in flight at once
Emails == {"a@x", "root@x"}
Passwords == {"p"}            \* the passwords users register with
LoginPasswords == {"p", "q"}  \* and the ones logins are tried with
Roles == {"user", "super_admin"}
BodyProviders == {"absent", "openai", "gemini", "qwen", "other"}
Outcomes == {"url", "throw"}
BrandInputs == {"absent", "lists", "scalars"}
Files == {"absent", "valid", "undecodable", "oversize"}
BodyUserIds == {0, 1}         \* a userId field in a body: absent (0), or an id
BodyCounts == {<<>>} \cup {<<n>> : n \in (0 - 1)..MaxCount}
\* The bodies of generate requests: every count with the default provider,
\* and every provider with one version.
GenerateBodies ==
    {[count |-> n, provider |-> "absent"] : n \in BodyCounts}
    \cup {[count |-> <<1>>, provider |-> v] : v \in BodyProviders}

VARIABLES
    demoMode,       \* TRUE when Firebase could not be initialised (mock db)
    openai,         \* TRUE when the OpenAI client was constructed
    gemini,         \* TRUE when the Gemini client was constructed
    users,          \* collection users: id i is the i-th document
    projects,       \* collection projects
    designs,        \* collection designs
    trainingData,   \* collection trainingData
    trainingFiles,  \* files written under uploads/training
    tokens,         \* tokens signed so far, [userId, role]
    registered,     \* history: registrations answered 201, [email, password, id]
    reqs,           \* the requests in flight: a bag of handler states
    resp,           \* the response sent by the last step, if it sent one
    nreq            \* requests counted against MaxRequests

config == <<demoMode, openai, gemini>>
store == <<users, projects, designs, trainingData, trainingFiles>>
vars == <<demoMode, openai, gemini, users, projects, designs, trainingData,
          trainingFiles, tokens, registered, reqs, resp>>

\* ------------------------------------------------------------ primitives
\* bcrypt.hash / bcrypt.compare: the hash is a function of the password (the
\* salt is abstracted) and is never the password itself.
Hash(password) == <<"bcrypt", password>>
Compare(password, hashed) == hashed = Hash(password)

\* jwt.sign: the payload the token carries.
Sign(userId, role) == [userId |-> userId, role |-> role]

\* What a client can put in the Authorization header: nothing, a string that
\* does not verify (malformed or badly signed), or a token this server signed,
\* either still valid or past its expiry.
Credentials ==
    {[kind |-> k, userId |-> 0, role |-> "none"] : k \in {"missing", "malformed"}}
    \cup {[kind |-> k, userId |-> t.userId, role |-> t.role] :
            t \in tokens, k \in {"valid", "expired"}}

\* auth middleware: next() is reached only with a token jwt.verify accepts.
Auth(cred) == cred.kind = "valid"

\* The id the mock store's add() returns ('demo-' + Date.now()); nothing is
\* stored under it.
DemoId == 0

\* db.collection(c).add(doc): the collection afterwards, and the new id.
DbAdd(coll, doc) == IF demoMode THEN coll ELSE Append(coll, doc)
DbAddId(coll) == IF demoMode THEN DemoId ELSE Len(coll) + 1

\* db.collection(c).doc(id).get().exists
DbExists(coll, id) == ~demoMode /\ id \in 1..Len(coll)

\* db.collection('users').where('email', '==', email).get(): matching ids.
DbWhereEmail(email) ==
    IF demoMode THEN {} ELSE {i \in 1..Len(users) : users[i].email = email}

\* --------------------------------------------------------------- requests
NoBody == [message |-> "none"]
Idle == [kind |-> "none", pc |-> "idle", userId |-> 0, role |-> "none",
         email |-> "", password |-> "", target |-> 0,
         count |-> 0, provider |-> "none", file |-> "none",
         images |-> <<>>, version |-> 0, projectId |-> 0,
         urls |-> <<>>, issued |-> 0, threw |-> FALSE,
         sent |-> 0, status |-> 0, body |-> NoBody, writes |-> 0,
         known |-> FALSE,
         replaced |-> <<>>, replacedVersion |-> 0,
         owner |-> 0, claimed |-> 0]

Inflight == BagToSet(reqs)

\* A new request is accepted.  A response just written is flushed to its
\* client (Flush) before the event loop runs the next callback.
Accept ==
    /\ resp = Idle
    /\ BagCardinality(reqs) < Cardinality(Slots)
    /\ nreq < MaxRequests

\* res.status(status).json(body): one more response sent; the handler returns.
Respond(r, status, body) ==
    [r EXCEPT !.pc = "end", !.sent = @ + 1, !.status = status, !.body = body]

\* One more write to a collection or to the upload folder by this request.
Wrote(r) == [r EXCEPT !.writes = @ + 1]

\* The handler of request old ran to its next await, or to its end: it is now
\* new.  A request that ended leaves the bag and its response is in resp.
Step(old, new) ==
    /\ resp = Idle
    /\ nreq' = IF old.pc = "idle" /\ (new.pc # "end" \/ new.writes > 0)
               THEN nreq + 1 ELSE nreq
    /\ LET others == IF old.pc = "idle" THEN reqs ELSE reqs (-) SetToBag({old})
       IN  IF new.pc = "end"
           THEN reqs' = others /\ resp' = new
           ELSE reqs' = others (+) SetToBag({new}) /\ resp' = Idle

Msg(text) == [message |-> text]

\* Deny without its return: the response is sent and the handler goes on.
DenyNoReturn(r, status, text) ==
    [r EXCEPT !.sent = @ + 1, !.status = status, !.body = Msg(text)]

\* return res.status(status).json({ message }): the handler answers and
\* does nothing more.
Deny(r, status, text) == Respond(r, status, Msg(text))

\* Owns with the comparison dropped.
OwnsAnything(doc, userId) == TRUE

\* The ownership test of the handlers: the document's userId is the caller's.
Owns(doc, userId) == doc.userId = userId

\* DocOwner taking the userId of the body when the body has one.
DocOwnerFromBody(r, bodyUserId) ==
    IF bodyUserId = 0 THEN r.userId ELSE bodyUserId

\* userId: req.userId in projectData and designData: the handlers take from
\* the body the fields they name, and userId is not one of them.
DocOwner(r, bodyUserId) == r.userId

\* A request on a protected route, after the auth middleware set req.userId
\* and req.role from the decoded token.
Arrived(kind, cred) ==
    [Idle EXCEPT !.kind = kind, !.pc = "run",
                 !.userId = cred.userId, !.role = cred.role]

\* auth middleware on any protected route, the token absent or refused by
\* jwt.verify: 401, and next() is not called, so the route's handler (and,
\* on the upload route, multer) never runs.
Unauthorized(cred) ==
    /\ Accept
    /\ ~Auth(cred)
    /\ Step(Idle, Deny([Idle EXCEPT !.kind = "protected"], 401,
                IF cred.kind = "missing"
                THEN "No token, authorization denied"
                ELSE "Token is not valid"))
    /\ UNCHANGED <<config, store, tokens, registered>>

\* ------------------------------------------------------------ auth routes
\* The stored role of a new user: always the least-privileged one.
RegisteredRole(bodyRole) == "user"

\* POST /api/auth/register, up to the answer of the existence query.
RegisterCheck(email, password, bodyRole) ==
    /\ Accept
    /\ LET r == [Idle EXCEPT !.kind = "register", !.email = email,
                             !.password = password,
                             !.role = RegisteredRole(bodyRole)]
       IN  Step(Idle, IF DbWhereEmail(email) # {}
                      THEN Deny(r, 400, "User already exists")
                      ELSE [r EXCEPT !.pc = "reg_add"])
    /\ UNCHANGED <<config, store, tokens, registered>>

\* POST /api/auth/register, from userRef.add to the 201 response.
RegisterAdd(r) ==
    /\ r.pc = "reg_add"
    /\ LET role == r.role
           id == DbAddId(users)
           token == Sign(id, role)
       IN  /\ users' = DbAdd(users, [email |-> r.email,
                                     password |-> Hash(r.password),
                                     role |-> role])
           /\ tokens' = tokens \cup {token}
           /\ registered' = registered \cup
                  {[email |-> r.email, password |-> r.password, id |-> id]}
           /\ Step(r, Respond(Wrote(r), 201,
                      [message |-> "User created successfully",
                       token |-> token,
                       user |-> [id |-> id, email |-> r.email, role |-> role]]))
    /\ UNCHANGED <<config, projects, designs, trainingData, trainingFiles>>

\* POST /api/auth/login: one query, then the password check on docs[0].  With
\* several matching documents docs[0] is the one Firestore orders first, which
\* the auto-generated ids decide: any of them.
Login(email, password) ==
    /\ Accept
    /\ LET r == [Idle EXCEPT !.kind = "login", !.email = email,
                             !.password = password,
                             !.known = \E g \in registered :
                                 g.email = email /\ g.password = password]
       IN  IF DbWhereEmail(email) = {}
           THEN /\ Step(Idle, Deny(r, 400, "Invalid credentials"))
                /\ UNCHANGED tokens
           ELSE \E id \in DbWhereEmail(email) :
                  IF ~Compare(password, users[id].password)
                  THEN /\ Step(Idle, Deny(r, 400, "Invalid credentials"))
                       /\ UNCHANGED tokens
                  ELSE LET token == Sign(id, users[id].role)
                       IN  /\ tokens' = tokens \cup {token}
                           /\ Step(Idle, Respond(r, 200,
                                      [message |-> "Login successful",
                                       token |-> token,
                                       user |-> [id |-> id,
                                                 email |-> users[id].email,
                                                 role |-> users[id].role]]))
    /\ UNCHANGED <<config, store, registered>>

\* Profile without the delete of the password field.
ProfileWithPassword(id, doc) ==
    [f \in DOMAIN doc \cup {"id"} |-> IF f = "id" THEN id ELSE doc[f]]

\* The profile GET /api/auth/me returns: the stored document without its
\* password field, and the id.
Profile(id, doc) ==
    [f \in (DOMAIN doc \ {"password"}) \cup {"id"} |->
        IF f = "id" THEN id ELSE doc[f]]

\* GET /api/auth/me
Me(cred) ==
    /\ Accept
    /\ Auth(cred)
    /\ LET r == Arrived("me", cred)
       IN  Step(Idle, IF ~DbExists(users, r.userId)
                      THEN Deny(r, 404, "User not found")
                      ELSE Respond(r, 200,
                               [user |-> Profile(r.userId, users[r.userId])]))
    /\ UNCHANGED <<config, store, tokens, registered>>

\* ---------------------------------------------------------- project routes
\* The documents of coll whose ids are in keep, newest first (orderBy
\* createdAt desc: the latest added first), each with its id as _id.
RECURSIVE NewestFirst(_, _, _)
NewestFirst(coll, keep, n) ==
    IF n = 0 THEN <<>>
    ELSE IF n \in keep
         THEN <<[id |-> n, doc |-> coll[n]]>> \o NewestFirst(coll, keep, n - 1)
         ELSE NewestFirst(coll, keep, n - 1)

\* GET /api/projects: where userId == caller, newest first.  The mock store
\* answers with no documents.
ListProjects(cred) ==
    /\ Accept
    /\ Auth(cred)
    /\ LET r == Arrived("list_projects", cred)
           mine == {i \in 1..Len(projects) : Owns(projects[i], r.userId)}
       IN  Step(Idle, Respond(r, 200,
                   [items |-> IF demoMode THEN <<>>
                              ELSE NewestFirst(projects, mine, Len(projects))]))
    /\ UNCHANGED <<config, store, tokens, registered>>

\* brandElements || { colorPalette: [], fonts: [] }: what is stored is the
\* body's value, lists (the declared shape) or anything else.
BrandElements(input) == IF input = "absent" THEN "lists" ELSE input

\* POST /api/projects
CreateProject(cred, brand, bodyUserId) ==
    /\ Accept
    /\ Auth(cred)
    /\ LET r == [Arrived("create_project", cred) EXCEPT !.claimed = bodyUserId]
           doc == [userId |-> DocOwner(r, bodyUserId),
                   brandElements |-> BrandElements(brand)]
       IN  /\ projects' = DbAdd(projects, doc)
           /\ Step(Idle, Respond(Wrote(r), 201,
                  [id |-> DbAddId(projects), doc |-> doc]))
    /\ UNCHANGED <<config, users, designs, trainingData, trainingFiles,
                   tokens, registered>>

\* ----------------------------------------------------------- design routes
\* DesignMatch with the userId filter dropped.
DesignMatchProjectOnly(doc, projectId, userId) == doc.projectId = projectId

\* .where('projectId', '==', projectId).where('userId', '==', userId)
DesignMatch(doc, projectId, userId) ==
    doc.projectId = projectId /\ doc.userId = userId

\* GET /api/designs/project/:projectId: two equality filters, newest first.
\* The mock store's where() returns no where(): the chained call throws and
\* the handler's catch answers 500.
ListDesigns(cred, projectId) ==
    /\ Accept
    /\ Auth(cred)
    /\ LET r == [Arrived("list_designs", cred) EXCEPT !.target = projectId]
           match == {i \in 1..Len(designs) :
                        DesignMatch(designs[i], projectId, r.userId)}
       IN  Step(Idle, IF demoMode
                      THEN Respond(r, 500, Msg("Server error"))
                      ELSE Respond(r, 200,
                               [items |-> NewestFirst(designs, match, Len(designs))]))
    /\ UNCHANGED <<config, store, tokens, registered>>

\* The status POST /api/designs answers when the project is missing or is
\* not the caller's.
ProjectDenied == 404

\* POST /api/designs, up to the answer of the project lookup.
CreateDesignCheck(cred, projectId, bodyUserId) ==
    /\ Accept
    /\ Auth(cred)
    /\ LET r == [Arrived("create_design", cred) EXCEPT !.target = projectId]
       IN  Step(Idle, IF ~DbExists(projects, projectId)
                         \/ ~Owns(projects[projectId], r.userId)
                      THEN Deny(r, ProjectDenied, "Project not found")
                      ELSE [r EXCEPT !.pc = "design_add",
                                     !.owner = DocOwner(r, bodyUserId)])
    /\ UNCHANGED <<config, store, tokens, registered>>

\* POST /api/designs, from the add to the 201 response.
CreateDesignAdd(r) ==
    /\ r.pc = "design_add"
    /\ LET doc == [projectId |-> r.target, userId |-> r.owner,
                   generatedImages |-> <<>>, currentVersion |-> 0,
                   isActive |-> TRUE]
       IN  /\ designs' = DbAdd(designs, doc)
           /\ Step(r, Respond(Wrote(r), 201,
                  [id |-> DbAddId(designs), doc |-> doc]))
    /\ UNCHANGED <<config, users, projects, trainingData, trainingFiles,
                   tokens, registered>>

\* -------------------------------------------------------------- generation
\* const { count = 3, provider = 'openai' } = req.body
CountOf(bodyCount) == IF bodyCount = <<>> THEN DefaultCount ELSE bodyCount[1]
ProviderOf(bodyProvider) == IF bodyProvider = "absent" THEN "openai" ELSE bodyProvider

\* Array.from({ length: count }, ...): ToLength makes a negative length 0.
ArrayLength(count) == IF count > 0 THEN count ELSE 0

\* generateDesign builds its prompt before its try block:
\* brandElements?.colorPalette?.join(', ') throws a TypeError when the stored
\* value has no join, and nothing in generateDesign catches it.
PromptThrows(project) == project.brandElements = "scalars"

\* generateDesign calls the provider's API (and awaits it) only for openai
\* with a constructed client.
Live(provider) == provider = "openai" /\ openai

\* The try/switch of generateDesign: the URL returned for provider.  outcome
\* is what a live call did: a URL, a response without url, or a throw.
PlaceholderOnError == "placeholder:Error+Generating+Design"
ProviderUrl(provider, outcome) ==
    CASE provider = "openai" ->
            IF ~openai THEN "placeholder:OpenAI+Not+Configured"
            ELSE IF outcome = "url" THEN "https://openai/image"
                 ELSE PlaceholderOnError
      [] provider = "gemini" ->
            IF ~gemini THEN "placeholder:Gemini+Not+Configured"
            ELSE "placeholder:Gemini+Generated+Design"
      [] provider = "qwen" -> "placeholder:Qwen+Generated+Design"
      [] OTHER -> "placeholder:Demo+Design+OTHER"

\* POST /api/designs/:id/generate, up to the answer of the design lookup.
GenerateReadDesign(cred, id, body) ==
    /\ Accept
    /\ Auth(cred)
    /\ LET r == [Arrived("generate", cred) EXCEPT !.target = id]
       IN  Step(Idle,
              IF ~DbExists(designs, id)
              THEN Deny(r, 404, "Design not found")
              ELSE IF ~Owns(designs[id], r.userId)
              THEN Deny(r, 403, "Access denied")
              ELSE [r EXCEPT !.pc = "gen_project",
                             !.count = CountOf(body.count),
                             !.provider = ProviderOf(body.provider),
                             !.images = designs[id].generatedImages,
                             !.version = designs[id].currentVersion,
                             !.projectId = designs[id].projectId])
    /\ UNCHANGED <<config, store, tokens, registered>>

\* From the answer of the project lookup to the await of Promise.all: every
\* generateDesign invocation is started here.  One that throws rejects
\* Promise.all and the handler's catch answers 500; the ones that call no API
\* have their URL at once.
GenerateReadProject(r) ==
    /\ r.pc = "gen_project"
    /\ Step(r,
          IF ~DbExists(projects, r.projectId)
          THEN Deny(r, 404, "Project not found")
          ELSE LET n == ArrayLength(r.count)
                   q == [r EXCEPT !.issued = n]
               IN  IF n > 0 /\ PromptThrows(projects[r.projectId])
                   THEN Respond([q EXCEPT !.threw = TRUE], 500, Msg("Server error"))
                   ELSE IF n > 0 /\ Live(r.provider)
                   THEN [q EXCEPT !.pc = "gen_wait"]
                   ELSE [q EXCEPT !.pc = "gen_update",
                            !.urls = [i \in 1..n |-> ProviderUrl(r.provider, "url")]])
    /\ UNCHANGED <<config, store, tokens, registered>>

\* One live invocation settles; Promise.all resolves with the last one.
GenerateComplete(r, outcome) ==
    /\ r.pc = "gen_wait"
    /\ Len(r.urls) < r.issued
    /\ LET urls == Append(r.urls, ProviderUrl(r.provider, outcome))
       IN  Step(r, [r EXCEPT !.urls = urls,
                             !.pc = IF Len(urls) = r.issued
                                    THEN "gen_update" ELSE "gen_wait"])
    /\ UNCHANGED <<config, store, tokens, registered>>

\* An update that appends to what the document holds when it is written.
DesignUpdateAppend(r) ==
    [generatedImages |-> designs[r.target].generatedImages \o r.urls,
     currentVersion |-> designs[r.target].currentVersion + r.count]

\* The partial document the handler writes: the list and the version it
\* read, extended by this request's URLs and count.
DesignUpdate(r) ==
    [generatedImages |-> r.images \o r.urls,
     currentVersion |-> r.version + r.count]

\* res.json({ newVersions, totalVersions, provider })
GenerateResponse(r) ==
    [message |-> "New versions generated successfully",
     newVersions |-> r.urls,
     totalVersions |-> r.version + r.count,
     provider |-> r.provider]

\* db.collection('designs').doc(id).update(...): the fields are merged into
\* the document; then the handler, resumed, sends the 200 response.  What it
\* sends was fixed before the update, so the response is taken with it.
\* replaced and replacedVersion record what the document held when the update
\* overwrote it.
GenerateUpdate(r) ==
    /\ r.pc = "gen_update"
    /\ LET u == DesignUpdate(r)
       IN  designs' = [designs EXCEPT ![r.target] =
               [@ EXCEPT !.generatedImages = u.generatedImages,
                         !.currentVersion = u.currentVersion]]
    /\ Step(r, Respond([Wrote(r) EXCEPT
                            !.replaced = designs[r.target].generatedImages,
                            !.replacedVersion = designs[r.target].currentVersion],
                        200, GenerateResponse(r)))
    /\ UNCHANGED <<config, users, projects, trainingData, trainingFiles,
                   tokens, registered>>

\* GET /api/ai/providers
ListProviders ==
    /\ Accept
    /\ Step(Idle, Respond([Idle EXCEPT !.kind = "providers"], 200,
                          Msg("providers")))
    /\ UNCHANGED <<config, store, tokens, registered>>

\* ------------------------------------------------------------ admin routes
\* upload.single('image') with limits.fileSize: a file over the limit makes
\* multer call next(err), which the error-handling middleware answers.
MulterRejects(file) == file = "oversize"

\* The role the training-data route requires.
RoleAllowed(role) == role = "super_admin"

\* POST /api/admin/training-data: auth, multer, the role and file checks,
\* then processAndSaveImage up to the written file.
UploadTrainingData(cred, file) ==
    /\ Accept
    /\ Auth(cred)
    /\ LET r == [Arrived("upload", cred) EXCEPT !.file = file]
       IN  IF MulterRejects(file)
           THEN /\ Step(Idle, Respond(r, 500, Msg("Something went wrong!")))
                /\ UNCHANGED trainingFiles
           ELSE IF ~RoleAllowed(r.role)
           THEN /\ Step(Idle, Deny(r, 403,
                        "Access denied. Super admin required."))
                /\ UNCHANGED trainingFiles
           ELSE IF file = "absent"
           THEN /\ Step(Idle, Deny(r, 400, "No image uploaded"))
                /\ UNCHANGED trainingFiles
           ELSE IF file = "undecodable"
           THEN /\ Step(Idle, Respond(r, 500, Msg("Server error")))
                /\ UNCHANGED trainingFiles
           ELSE /\ trainingFiles' = trainingFiles + 1
                /\ Step(Idle, [Wrote(r) EXCEPT !.pc = "upload_add"])
    /\ UNCHANGED <<config, users, projects, designs, trainingData,
                   tokens, registered>>

\* POST /api/admin/training-data, from the add to the 201 response.
UploadAdd(r) ==
    /\ r.pc = "upload_add"
    /\ LET doc == [uploadedBy |-> r.userId, isProcessed |-> FALSE]
       IN  /\ trainingData' = DbAdd(trainingData, doc)
           /\ Step(r, Respond(Wrote(r), 201,
                  [message |-> "Training data uploaded successfully",
                   id |-> DbAddId(trainingData), doc |-> doc]))
    /\ UNCHANGED <<config, users, projects, designs, trainingFiles,
                   tokens, registered>>

\* GET /api/health
Health ==
    /\ Accept
    /\ Step(Idle, Respond([Idle EXCEPT !.kind = "health"], 200,
                          Msg("Design Agent API is running")))
    /\ UNCHANGED <<config, store, tokens, registered>>

\* The response written by the last step is on the wire.
Flush ==
    /\ resp # Idle
    /\ resp' = Idle
    /\ UNCHANGED <<config, store, tokens, registered, reqs, nreq>>

\* ------------------------------------------------------------------ system
\* The super_admin no endpoint can create: provisioned in Firestore directly.
\* The server starts with that document in the store and, the tokens being
\* stateless and good for 7 days, with a token of an earlier login of that
\* user still in its client's hands.  In demo mode there is no store.
RootUser == [email |-> "root@x", password |-> Hash("p"), role |-> "super_admin"]

Init ==
    /\ demoMode \in BOOLEAN
    /\ openai \in BOOLEAN
    /\ gemini \in BOOLEAN
    /\ users = IF demoMode THEN <<>> ELSE <<RootUser>>
    /\ projects = <<>>
    /\ designs = <<>>
    /\ trainingData = <<>>
    /\ trainingFiles = 0
    /\ tokens = IF demoMode THEN {} ELSE {Sign(1, RootUser.role)}
    /\ registered = {}
    /\ reqs = EmptyBag
    /\ resp = Idle
    /\ nreq = 0

Next ==
    \/ \E e \in Emails, p \in Passwords, b \in Roles : RegisterCheck(e, p, b)
    \/ \E r \in Inflight : RegisterAdd(r)
    \/ \E e \in Emails, p \in LoginPasswords : Login(e, p)
    \/ \E c \in Credentials : Unauthorized(c)
    \/ \E c \in Credentials : Me(c)
    \/ \E c \in Credentials : ListProjects(c)
    \/ \E c \in Credentials, b \in BrandInputs, u \in BodyUserIds :
          CreateProject(c, b, u)
    \/ \E c \in Credentials, id \in 1..(Len(projects) + 1) : ListDesigns(c, id)
    \/ \E c \in Credentials, id \in 1..(Len(projects) + 1), u \in BodyUserIds :
          CreateDesignCheck(c, id, u)
    \/ \E r \in Inflight : CreateDesignAdd(r)
    \/ \E c \in Credentials, id \in 1..(Len(designs) + 1), b \in GenerateBodies :
          GenerateReadDesign(c, id, b)
    \/ \E r \in Inflight : GenerateReadProject(r)
    \/ \E r \in Inflight, o \in Outcomes : GenerateComplete(r, o)
    \/ \E r \in Inflight : GenerateUpdate(r)
    \/ ListProviders
    \/ \E c \in Credentials, f \in Files : UploadTrainingData(c, f)
    \/ \E r \in Inflight : UploadAdd(r)
    \/ Health
    \/ Flush

Spec == Init /\ [][Next]_vars

\* ------------------------------------------------------------------ claims
DesignIds == 1..Len(designs)
ProjectIds == 1..Len(projects)
Responded(kind) == resp.pc = "end" /\ resp.kind = kind

\* C1: every stored design's currentVersion equals the length of its
\* generatedImages, in every reachable state, for any integer count.
C1_VersionEqualsLength ==
    \A i \in DesignIds :
        designs[i].currentVersion = Len(designs[i].generatedImages)

\* The requests of bag B that are at pc.
AtPc(B, pc) == {r \in BagToSet(B) : r.pc = pc}

\* C2: when a generate request with count n writes its update, the stored
\* design has the version it read plus n and the list it read followed by
\* exactly n URLs; and its response reports totalVersions = v + n.
C2_VersionMonotonic ==
    [][/\ \A r \in AtPc(reqs, "gen_update") :
            CopiesIn(r, reqs') < CopiesIn(r, reqs) =>
                /\ designs'[r.target].currentVersion = r.version + r.count
                /\ Len(designs'[r.target].generatedImages)
                      = Len(r.images) + r.count
                /\ SubSeq(designs'[r.target].generatedImages, 1, Len(r.images))
                      = r.images
       /\ (resp'.pc = "end" /\ resp'.kind = "generate" /\ resp'.status = 200) =>
            /\ resp'.body.totalVersions = resp'.version + resp'.count
            /\ Len(resp'.body.newVersions) = resp'.count]_vars

\* The caller of the last response addressed an existing project that is
\* another user's.
OthersProject ==
    /\ resp.target \in ProjectIds
    /\ projects[resp.target].userId # resp.userId

\* C3: a list-designs response never holds a design of another user, and for
\* a caller who is not the project's owner it is the empty sequence.
C3_ListDesignsOwnerOnly ==
    Responded("list_designs") =>
        /\ resp.status = 200 =>
              \A i \in 1..Len(resp.body.items) :
                  resp.body.items[i].doc.userId = resp.userId
        /\ OthersProject => resp.status = 200 /\ resp.body.items = <<>>

\* C3 witness: a non-owner listed a project that holds designs.
C3_Witness ==
    /\ Responded("list_designs")
    /\ OthersProject
    /\ \E i \in DesignIds : designs[i].projectId = resp.target

\* C4: an upload request with a valid token of role user is answered 403
\* whatever the payload, and writes nothing.
C4_UserUploadForbidden ==
    (Responded("upload") /\ resp.role = "user") =>
        resp.status = 403 /\ resp.writes = 0

\* C5: a registration of an unused email is answered 201 and stores role
\* user; a later login with the same credentials is answered 200 with a token
\* of role user whose userId is the registered user's id.
C5_RegisterThenLogin ==
    /\ Responded("register") /\ resp.status = 201 =>
          /\ resp.body.token.role = "user"
          /\ ~demoMode => users[resp.body.user.id].role = "user"
    /\ Responded("login") /\ resp.known =>
          /\ resp.status = 200
          /\ resp.body.token.role = "user"
          /\ \A g \in registered :
                (g.email = resp.email /\ g.password = resp.password)
                    => resp.body.token.userId = g.id

\* C6: no two documents of users share an email, and a registration of a
\* registered email is answered 400.
C6_EmailUnique ==
    /\ \A i, j \in 1..Len(users) : users[i].email = users[j].email => i = j
    /\ Responded("register") /\ resp.status = 201 =>
          \A i \in 1..Len(users) :
              users[i].email = resp.email => i = resp.body.user.id

\* The caller of the last response addressed an existing design that is
\* another user's.
OthersDesign ==
    /\ resp.target \in DesignIds
    /\ designs[resp.target].userId # resp.userId

\* C7 (as stated): a request on another user's existing project or design is
\* answered 403.
C7_WrongOwner403 ==
    /\ Responded("create_design") /\ OthersProject => resp.status = 403
    /\ Responded("generate") /\ OthersDesign => resp.status = 403

\* C7 (amended): generate on another user's design is answered 403; create
\* design under another user's project is answered 404, as for a missing
\* project; neither writes anything.
C7_WrongOwnerRefused ==
    /\ \A r \in Inflight :
          /\ r.kind = "create_design" => Owns(projects[r.target], r.userId)
          /\ r.kind = "generate" => Owns(designs[r.target], r.userId)
    /\ Responded("create_design") /\ OthersProject =>
          resp.status = 404 /\ resp.writes = 0
    /\ Responded("generate") /\ OthersDesign =>
          resp.status = 403 /\ resp.writes = 0

\* C7 witness: a generate request on another user's design was answered.
C7_Witness == Responded("generate") /\ OthersDesign

\* C8: a generate request that passed its checks gets a URL from every
\* generateDesign invocation, none raises, and it is never answered 500.
C8_GenerationNeverFails ==
    /\ \A r \in Inflight : ~r.threw
    /\ Responded("generate") =>
          /\ ~resp.threw
          /\ resp.status # 500
          /\ resp.status = 200 => Len(resp.urls) = resp.issued

\* C9: no response of register, login or me carries a password field, at
\* its top level or in the user profile it holds.
C9_NoPasswordInResponse ==
    (Responded("register") \/ Responded("login") \/ Responded("me")) =>
        /\ "password" \notin DOMAIN resp.body
        /\ "user" \in DOMAIN resp.body =>
              "password" \notin DOMAIN resp.body.user

\* C9 witness: me answered with the profile of a stored user.
C9_Witness ==
    /\ Responded("me")
    /\ resp.status = 200
    /\ "password" \in DOMAIN users[resp.userId]

Rejected == {400, 401, 403, 404}

\* The writes issued so far by the requests of bag B.
RECURSIVE SumWrites(_, _)
SumWrites(S, B) ==
    IF S = {} THEN 0
    ELSE LET r == CHOOSE x \in S : TRUE
         IN  r.writes * CopiesIn(r, B) + SumWrites(S \ {r}, B)
BagWrites(B) == SumWrites(BagToSet(B), B)

\* C10: every request is answered exactly once; a step that changes a
\* collection or the upload folder is one write of one request; and a request
\* answered 400, 401, 403 or 404 has written nothing, has started no
\* generation call, and its last step changed nothing.
C10_ShortCircuit ==
    [][/\ resp'.pc = "end" => resp'.sent = 1
       /\ \A r \in BagToSet(reqs') : r.sent = 0 /\ r.pc # "end"
       /\ resp = Idle =>
             /\ BagWrites(reqs') + resp'.writes - BagWrites(reqs) \in {0, 1}
             /\ store' # store =>
                   BagWrites(reqs') + resp'.writes = BagWrites(reqs) + 1
       /\ (resp'.pc = "end" /\ resp'.status \in Rejected) =>
             /\ resp'.writes = 0
             /\ resp'.issued = 0
             /\ store' = store]_vars

\* C10 witness: a generate request on an existing design was refused.
C10_Witness ==
    /\ Responded("generate")
    /\ resp.status = 403
    /\ resp.target \in DesignIds

\* C11: the update of a generate request overwrites the document with the list
\* and version the request read, extended by its own URLs and count, whatever
\* the document holds by then; so when another request's update came between
\* its read and its write, both are answered 200 and the other's URLs and
\* count are lost.
C11_LastWriterWins ==
    (Responded("generate") /\ resp.status = 200) =>
        /\ resp.writes = 1
        /\ designs[resp.target].generatedImages = resp.images \o resp.urls
        /\ designs[resp.target].currentVersion = resp.version + resp.count
        /\ (Len(resp.replaced) > Len(resp.images)
              /\ resp.replacedVersion > resp.version) =>
              /\ Len(designs[resp.target].generatedImages)
                    < Len(resp.replaced) + Len(resp.urls)
              /\ designs[resp.target].currentVersion
                    < resp.replacedVersion + resp.count

\* C11 witness: a request was answered 200 after its update replaced a list
\* that another request had extended since it was read, and the stored list
\* is no longer than the one replaced.
C11_Witness ==
    /\ Responded("generate")
    /\ resp.status = 200
    /\ Len(resp.urls) > 0
    /\ Len(resp.replaced) > Len(resp.images)
    /\ resp.replacedVersion > resp.version
    /\ Len(designs[resp.target].generatedImages) <= Len(resp.replaced)
    /\ designs[resp.target].currentVersion <= resp.replacedVersion
\* The generate requests of bag B that have started their invocations.
Generating(B) == AtPc(B, "gen_wait") \cup AtPc(B, "gen_update")

\* C12: a generate request asking for count versions issues exactly count
\* generateDesign invocations; its update is written only when all of them
\* have completed; its response comes only after that update; and newVersions
\* holds exactly count URLs, the ones the update appended, in the same order.
C12_JoinAll ==
    [][/\ \A r \in Generating(reqs') :
             /\ r.issued = r.count
             /\ r.writes = 0 /\ r.sent = 0
             /\ r.pc = "gen_wait" => Len(r.urls) < r.issued
       /\ \A i \in DesignIds :
             designs'[i] # designs[i] =>
                 \E r \in AtPc(reqs, "gen_update") :
                     /\ r.target = i
                     /\ Len(r.urls) = r.issued
                     /\ resp' = Respond([Wrote(r) EXCEPT
                                   !.replaced = designs[i].generatedImages,
                                   !.replacedVersion = designs[i].currentVersion],
                                 200, GenerateResponse(r))
       /\ (resp'.pc = "end" /\ resp'.kind = "generate" /\ resp'.status = 200) =>
             /\ resp'.issued = resp'.count
             /\ resp'.writes = 1 /\ resp'.sent = 1
             /\ Len(resp'.body.newVersions) = resp'.count
             /\ designs'[resp'.target].generatedImages
                   = resp'.images \o resp'.body.newVersions]_vars
\* C13: every stored design names an existing project and carries that
\* project's userId; and a design is added only by a create-design request
\* whose project exists and is the caller's, with an empty generatedImages,
\* currentVersion 0 and isActive true.
C13_DenormalizedOwner ==
    [][/\ \A i \in 1..Len(designs') :
             /\ designs'[i].projectId \in 1..Len(projects')
             /\ designs'[i].userId = projects'[designs'[i].projectId].userId
       /\ Len(designs') >= Len(designs)
       /\ Len(designs') > Len(designs) =>
             LET d == designs'[Len(designs')]
             IN  /\ Len(designs') = Len(designs) + 1
                 /\ resp'.pc = "end" /\ resp'.kind = "create_design"
                 /\ resp'.status = 201
                 /\ d.projectId = resp'.target
                 /\ d.userId = resp'.userId
                 /\ resp'.target \in ProjectIds
                 /\ projects[resp'.target].userId = resp'.userId
                 /\ d.generatedImages = <<>>
                 /\ d.currentVersion = 0
                 /\ d.isActive]_vars

\* C13 witness: a create-design request was answered 201 and its design is
\* stored, while projects of two users exist.
C13_Witness ==
    /\ Responded("create_design")
    /\ resp.status = 201
    /\ resp.body.id \in DesignIds
    /\ designs[resp.body.id].userId = resp.userId
    /\ \E i, j \in ProjectIds : projects[i].userId # projects[j].userId
\* C14: a step of a request made with the token of user A leaves unchanged
\* every project and design whose userId is another user's, never changes the
\* userId or projectId of a stored document, and every project or design it
\* adds carries A's userId, whatever userId the body held.
C14_WriteIsolation ==
    [][/\ (projects' # projects \/ designs' # designs) =>
             (resp'.pc = "end" /\ resp'.userId # 0 /\ resp'.writes = 1)
       /\ \A i \in ProjectIds : projects'[i] = projects[i]
       /\ \A i \in DesignIds :
             /\ designs[i].userId # resp'.userId => designs'[i] = designs[i]
             /\ designs'[i].userId = designs[i].userId
             /\ designs'[i].projectId = designs[i].projectId
       /\ \A i \in (Len(projects) + 1)..Len(projects') :
             projects'[i].userId = resp'.userId
       /\ \A i \in (Len(designs) + 1)..Len(designs') :
             designs'[i].userId = resp'.userId]_vars

\* C14 witness: a create-project request whose body named another user's id
\* was answered 201, its project is stored under the caller's id, and a
\* project of the user it named exists.
C14_Witness ==
    /\ Responded("create_project")
    /\ resp.status = 201
    /\ resp.claimed # 0 /\ resp.claimed # resp.userId
    /\ resp.body.id \in ProjectIds
    /\ projects[resp.body.id].userId = resp.userId
    /\ \E i \in ProjectIds : projects[i].userId = resp.claimed
====
